---- MODULE Spec2Model ----
(***************************************************************************)
(* State-machine model of src/src/index.ts: the module body (the command   *)
(* line, the constants, validateConfig), the four MCP tool handlers        *)
(* (sftp_upload, sftp_download, sftp_list, exec) and the two promise       *)
(* wrappers execSftpCommand and execSshCommand around an ssh2 client.      *)
(*                                                                         *)
(* One JavaScript callback (run to completion) is one action.  The ssh2    *)
(* client, the remote server and the local file system are the             *)
(* environment: they choose which event is delivered next and with what    *)
(* payload.  Each invocation of a tool occupies one slot of inv.           *)
(***************************************************************************)
EXTENDS Integers, Sequences, FiniteSets, TLC

VARIABLES
  proc,      \* the Node process: "starting" | "serving" | "exited" (startup failed)
             \* | "crashed" (an uncaught exception ended it)
  argvConfig,\* what parseArgv() returned: host, user, port, password, key
  cfg,       \* the module constants: PORT, and whether PASSWORD / KEY are truthy
  scope,     \* environment: how much the dispatcher asks and the remote side sends
  limit,     \* how many invocations the dispatcher lets run at once
  invCount,  \* invocations started so far
  localfs,   \* local file system: LocalPath -> content, or Untouched
  remote,    \* remote file store: RemotePath -> content or NoFile
  upl,       \* history: per remote path, what the last completed upload wrote
  inv        \* per slot: the state of the invocation that occupies it

vars == <<proc, argvConfig, cfg, scope, limit, invCount, localfs, remote, upl, inv>>

---------------------------------------------------------------------------
(* Bounds of the model                                                     *)

MaxFileLen == 2
MaxStreamBytes == 2
MaxCmdLen == 2
MaxEntries == 2
MaxInvocations == 2
MaxPortLen == 5
\* Every length bound of the narrow scope.
NarrowLen == 1

Slots == {1, 2}

\* The scope of the environment: the longest file, command and listing, the
\* bytes one command sends, the distinct error messages, the invocations.
MsgNames == <<"m1", "m2">>

WideScope ==
  [ fileLen |-> MaxFileLen, streamBytes |-> MaxStreamBytes, cmdLen |-> MaxCmdLen,
    entries |-> MaxEntries, msgs |-> Len(MsgNames), invocations |-> MaxInvocations ]

NarrowScope ==
  [ fileLen |-> NarrowLen, streamBytes |-> NarrowLen, cmdLen |-> NarrowLen,
    entries |-> NarrowLen, msgs |-> NarrowLen, invocations |-> MaxInvocations ]

---------------------------------------------------------------------------
(* Data                                                                    *)

\* Bytes: "A" is an ASCII byte, "L" the lead byte and "T" the continuation
\* byte of a two-byte UTF-8 character: <<"L", "T">> is one well-formed
\* character.  File transfer never looks inside a byte, so files are drawn
\* from two of the three values.
Byte == {"A", "L", "T"}
FileByte == {"A", "L"}

SeqUpTo(S, n) == UNION {[1..k -> S] : k \in 0..n}

FileContents == SeqUpTo(FileByte, scope.fileLen)
\* A 'data' event of a stream carries a non-empty buffer.
Chunks(n) == SeqUpTo(Byte, n) \ {<<>>}

\* A path with no file is NoFile, a one-element sequence that is no content.
NoFile == <<"ENOENT">>

\* A local path this process has not written holds whatever its user left
\* there: Untouched.  Reading it yields any content, or fails.
Untouched == <<"?">>
ReadResults(f) == IF f = Untouched THEN FileContents \cup {NoFile} ELSE {f}

LocalPath == {"l1", "l2"}
RemotePath == {"r1", "r2"}

\* Command strings: "SP" is a white-space character, "X" any other.
CmdChar == {"SP", "X"}
Commands == SeqUpTo(CmdChar, scope.cmdLen)

ExitCodes == {0, 1}
ErrMsgs == {MsgNames[k] : k \in 1..scope.msgs}

Entries == {[filename |-> "f1", longname |-> "d1"], [filename |-> "f2", longname |-> "d2"]}
Listings == SeqUpTo(Entries, scope.entries)

RECURSIVE Flatten(_)
Flatten(ss) == IF ss = <<>> THEN <<>> ELSE Head(ss) \o Flatten(Tail(ss))

\* Buffer.prototype.toString(): UTF-8 decoding of one buffer.  A complete
\* two-byte sequence is the character "e2"; a lead byte without its
\* continuation and a continuation byte without its lead are each U+FFFD;
\* an ASCII byte is the character "a".
RECURSIVE Decode(_)
Decode(b) ==
  IF b = <<>> THEN <<>>
  ELSE IF Head(b) = "A" THEN <<"a">> \o Decode(Tail(b))
  ELSE IF Head(b) = "L" /\ Len(b) >= 2 /\ b[2] = "T"
       THEN <<"e2">> \o Decode(SubSeq(b, 3, Len(b)))
  ELSE <<"FFFD">> \o Decode(Tail(b))

\* String.prototype.trim(): white space removed from both ends.
RECURSIVE TrimStart(_)
TrimStart(s) == IF s # <<>> /\ Head(s) = "SP" THEN TrimStart(Tail(s)) ELSE s

RECURSIVE TrimEnd(_)
TrimEnd(s) ==
  IF s # <<>> /\ s[Len(s)] = "SP" THEN TrimEnd(SubSeq(s, 1, Len(s) - 1)) ELSE s

Trim(s) == TrimEnd(TrimStart(s))

---------------------------------------------------------------------------
(* The command line and the module constants                               *)

\* A key the command line does not give is undefined in argvConfig; a value
\* is a string, <<>> for --key= with nothing after the equals sign.
Absent == <<"undefined">>

\* if (v): undefined and the empty string are falsy.
Truthy(v) == v # Absent /\ v # <<>>

\* Characters of a --port value: two digits, the minus sign, white space,
\* and "z" for a character that no number contains.
PortChar == {"0", "9", "-", "SP", "z"}
PortStrings == SeqUpTo(PortChar, MaxPortLen)

Digit == {"0", "9"}
DigitValue(d) == IF d = "0" THEN 0 ELSE 9

\* A JavaScript number: an integer value, or NaN.
NaN == [nan |-> TRUE, n |-> 0]
Num(n) == [nan |-> FALSE, n |-> n]

RECURSIVE Decimal(_)
Decimal(ds) ==
  IF ds = <<>> THEN 0
  ELSE 10 * Decimal(SubSeq(ds, 1, Len(ds) - 1)) + DigitValue(ds[Len(ds)])

RECURSIVE DigitPrefix(_)
DigitPrefix(s) ==
  IF s # <<>> /\ Head(s) \in Digit THEN <<Head(s)>> \o DigitPrefix(Tail(s)) ELSE <<>>

AllDigits(s) == s # <<>> /\ \A k \in 1..Len(s) : s[k] \in Digit

Signed(neg, ds) == Num(IF neg THEN 0 - Decimal(ds) ELSE Decimal(ds))

\* parseInt(str): leading white space is skipped, then an optional sign and
\* the longest run of digits are read and the rest is ignored; NaN when
\* there is no digit to read.
parseInt(str) ==
  LET s == TrimStart(str)
      neg == s # <<>> /\ Head(s) = "-"
      ds == DigitPrefix(IF neg THEN Tail(s) ELSE s)
  IN IF ds = <<>> THEN NaN ELSE Signed(neg, ds)

\* Number(str): white space is trimmed at both ends; the empty string is 0;
\* otherwise the whole string has to be a numeric literal, or it is NaN.
Number(str) ==
  LET s == Trim(str)
      neg == s # <<>> /\ Head(s) = "-"
      ds == IF neg THEN Tail(s) ELSE s
  IN IF s = <<>> THEN Num(0)
     ELSE IF AllDigits(ds) THEN Signed(neg, ds)
     ELSE NaN

isNaN(x) == x.nan

DefaultPort == 22

\* const PORT = argvConfig.port ? parseInt(argvConfig.port) : 22, and
\* PASSWORD and KEY as the handlers test them.
ModuleConstants(config) ==
  [ port     |-> IF Truthy(config.port) THEN parseInt(config.port) ELSE Num(DefaultPort),
    password |-> Truthy(config.password),
    key      |-> Truthy(config.key) ]

\* The constants before the module body has run.
NoConfig == [port |-> NaN, password |-> FALSE, key |-> FALSE]

\* validateConfig(config): the errors it collects; it throws unless there
\* are none.
validateConfig(config) ==
  (IF ~Truthy(config.host) THEN <<"Missing required --host">> ELSE <<>>)
  \o (IF ~Truthy(config.user) THEN <<"Missing required --user">> ELSE <<>>)
  \o (IF Truthy(config.port) /\ isNaN(Number(config.port))
      THEN <<"Invalid --port">> ELSE <<>>)

---------------------------------------------------------------------------
(* Promises, values and errors                                             *)

NoVal == [tag |-> "none"]
Pending == [st |-> "pending", val |-> NoVal]

McpError(kind, detail) == [tag |-> "McpError", kind |-> kind, detail |-> detail]
\* new McpError(InternalError, `Error (code ${code}):\n${stderr}`)
ExecFailure(code, text) ==
  [tag |-> "McpError", kind |-> "Error", code |-> code, detail |-> text]
TextContent(text) == [tag |-> "object", text |-> text]
BufferVal(bytes) == [tag |-> "buffer", bytes |-> bytes]

\* Variant: a reject that replaces whatever the promise held.
Reject_Overwrite(p, e) == [st |-> "rejected", val |-> e]

\* resolve(v) / reject(e) of a promise: only the first call settles it.
Resolve(p, v) == IF p.st = "pending" THEN [st |-> "resolved", val |-> v] ELSE p
Reject(p, e) == IF p.st = "pending" THEN [st |-> "rejected", val |-> e] ELSE p

---------------------------------------------------------------------------
(* One invocation                                                          *)

IdleSlot ==
  [ tool     |-> "none",     \* the tool invoked
    lp       |-> "l1",       \* localPath argument
    rp       |-> "r1",       \* remotePath argument
    cmd      |-> <<>>,       \* command argument
    pc       |-> "idle",     \* handler: "idle" | "await" | "done"
    fileData |-> <<>>,       \* upload: the buffer read from localPath
    auth     |-> {},         \* sshConfig: which of "password", "privateKey" it holds
    port     |-> NaN,        \* sshConfig.port
    keyRead  |-> FALSE,      \* history: fs.readFile(KEY) was called
    ready    |-> FALSE,      \* history: the connection emitted 'ready'
    conn     |-> "none",     \* SSHClient: "none" | "connecting" | "ready" | "errored"
    connects |-> 0,          \* conn.connect() calls
    ends     |-> 0,          \* conn.end() calls
    issued   |-> 0,          \* requests issued on the connection
    chan     |-> "none",     \* the request / stream in flight on the connection
    promise  |-> Pending,    \* the promise of execSftpCommand / execSshCommand
    outcome  |-> Pending,    \* the promise of the tool handler, seen by the dispatcher
    stdout   |-> <<>>,       \* exec: let stdout
    stderr   |-> <<>>,       \* exec: let stderr
    data     |-> <<>>,       \* download: let data
    spath    |-> "r1",       \* the path given to createWriteStream / createReadStream / readdir
    wbuf     |-> <<>>,       \* the buffer given to writeStream.write
    by       |-> "none",     \* history: the callback that settled promise
    outLog   |-> <<>>,       \* history: stdout chunks as delivered
    errLog   |-> <<>>,       \* history: stderr chunks as delivered
    code     |-> -1,         \* history: exit code delivered with 'close'
    dlLog    |-> <<>>,       \* history: read-stream chunks as delivered
    rpos     |-> 0,          \* remote side: read offset of the read stream
    listed   |-> <<>>,       \* history: entries the remote side returned
    errMsg   |-> "",         \* history: message of the connection's 'error' event
    wrote    |-> <<>>,       \* history: <<path, bytes>> the remote side stored for the write stream
    src      |-> NoFile ]    \* history: upload: localPath's content when invoked;
                             \*          download: upl[rp] when the read stream opened

\* Variant: two separate tests, so that the key is read and set as well as
\* the password.
SshAuth_Both(c, keyOk) ==
  [ ok      |-> (c.key => keyOk),
    auth    |-> (IF c.password THEN {"password"} ELSE {})
                  \cup (IF c.key THEN {"privateKey"} ELSE {}),
    port    |-> c.port,
    keyRead |-> c.key ]

\* const sshConfig = {host, port, username}; if (PASSWORD) ... else if (KEY) ...
\* keyOk: whether fs.readFile(KEY) succeeds.
SshAuth(c, keyOk) ==
  IF c.password
  THEN [ok |-> TRUE, auth |-> {"password"}, port |-> c.port, keyRead |-> FALSE]
  ELSE IF c.key
       THEN [ok |-> keyOk, auth |-> {"privateKey"}, port |-> c.port, keyRead |-> TRUE]
       ELSE [ok |-> TRUE, auth |-> {}, port |-> c.port, keyRead |-> FALSE]

\* new Promise(...): new SSHClient(), the two listeners, conn.connect(sshConfig).
Connect(s, sshConfig) ==
  [s EXCEPT !.auth = sshConfig.auth, !.port = sshConfig.port,
            !.keyRead = sshConfig.keyRead,
            !.conn = "connecting", !.connects = @ + 1, !.pc = "await"]

\* fs.readFile(KEY) rejected: the handler's catch wraps the error.
KeyUnreadable(s, prefix) ==
  [s EXCEPT !.keyRead = TRUE, !.pc = "done",
            !.outcome = Reject(@, McpError(prefix, <<"key">>))]

\* A handler that throws before it awaits anything remote.
Throw(s, e) == [s EXCEPT !.pc = "done", !.outcome = Reject(@, e)]

\* History: which callback settled the promise.
Mark(old, new, tag) ==
  IF old.promise.st = "pending" /\ new.promise.st # "pending"
  THEN [new EXCEPT !.by = tag] ELSE new

Serving == proc = "serving"

\* Promise reactions are microtasks: the continuation of a handler whose
\* promise has settled runs before any further event is delivered.
NoMicrotask == \A j \in Slots : ~(inv[j].pc = "await" /\ inv[j].promise.st # "pending")

InFlight == {j \in Slots : inv[j].pc = "await"}
Free(i) == inv[i].pc \in {"idle", "done"}

CanInvoke(i) ==
  /\ Serving /\ NoMicrotask
  /\ invCount < scope.invocations
  /\ Cardinality(InFlight) < limit
  /\ Free(i)
  /\ \A j \in Slots : j < i => ~Free(j)

---------------------------------------------------------------------------
(* exec: the tool handler and execSshCommand                               *)

\* Variant: the command is tested without trim().
ExecHandler_NoTrim(s, c, keyOk) ==
  IF s.cmd = <<>>
  THEN Throw(s, McpError("Command must be a non-empty string.", <<>>))
  ELSE IF ~SshAuth(c, keyOk).ok
       THEN KeyUnreadable(s, "Unexpected error")
       ELSE Connect(s, SshAuth(c, keyOk))

\* The synchronous part of the exec handler up to its await.
ExecHandler(s, c, keyOk) ==
  IF Trim(s.cmd) = <<>>
  THEN Throw(s, McpError("Command must be a non-empty string.", <<>>))
  ELSE IF ~SshAuth(c, keyOk).ok
       THEN KeyUnreadable(s, "Unexpected error")
       ELSE Connect(s, SshAuth(c, keyOk))

\* conn.on('ready'): conn.exec(command, cb)
ExecOnReady(s) ==
  [s EXCEPT !.conn = "ready", !.ready = TRUE, !.chan = "execReq", !.issued = @ + 1]

\* cb(err): reject, conn.end(), return
ExecCallbackErr(s, m) ==
  [s EXCEPT !.promise = Reject(@, McpError("SSH exec error", <<m>>)),
            !.ends = @ + 1, !.chan = "failed"]

\* cb(undefined, stream): let stdout = '', stderr = ''; the three listeners
ExecCallbackOk(s) ==
  [s EXCEPT !.stdout = <<>>, !.stderr = <<>>, !.chan = "stream"]

\* Variant: the chunk is put in front of what was accumulated.
ExecOnData_Prepend(s, chunk) == [s EXCEPT !.stdout = Decode(chunk) \o @]

\* stream.on('data'): stdout += data.toString()
ExecOnData(s, chunk) == [s EXCEPT !.stdout = @ \o Decode(chunk)]

\* stream.stderr.on('data'): stderr += data.toString()
ExecOnStderr(s, chunk) == [s EXCEPT !.stderr = @ \o Decode(chunk)]

\* Variant: the exit code, not stderr, decides between reject and resolve.
ExecOnClose_ByExitCode(s, code) ==
  [s EXCEPT !.ends = @ + 1, !.chan = "closed",
            !.promise =
               IF code # 0
               THEN Reject(@, ExecFailure(code, s.stderr))
               ELSE Resolve(@, TextContent(s.stdout))]

\* stream.on('close'): conn.end(); if (stderr) reject(...) else resolve(...)
ExecOnClose(s, code) ==
  [s EXCEPT !.ends = @ + 1, !.chan = "closed",
            !.promise =
               IF s.stderr # <<>>
               THEN Reject(@, ExecFailure(code, s.stderr))
               ELSE Resolve(@, TextContent(s.stdout))]

\* conn.on('error') of execSshCommand: reject only
ExecOnConnError(s, m) ==
  [s EXCEPT !.promise = Reject(@, McpError("SSH connection error", <<m>>))]

\* The handler after its await: return result, or rethrow the McpError.
ExecResume(s) == [s EXCEPT !.pc = "done", !.outcome = s.promise]

\* Bytes the command channel has delivered so far, on both streams.
Delivered(s) == Len(Flatten(s.outLog)) + Len(Flatten(s.errLog))

ExecInvoke(i) ==
  /\ CanInvoke(i)
  /\ \E cmd \in Commands, keyOk \in BOOLEAN :
       inv' = [inv EXCEPT ![i] =
                 ExecHandler([IdleSlot EXCEPT !.tool = "exec", !.cmd = cmd], cfg, keyOk)]
  /\ invCount' = invCount + 1
  /\ UNCHANGED <<proc, argvConfig, cfg, scope, limit, localfs, remote, upl>>

ExecReady(i) ==
  /\ Serving /\ NoMicrotask
  /\ inv[i].tool = "exec" /\ inv[i].conn = "connecting"
  /\ inv' = [inv EXCEPT ![i] = ExecOnReady(inv[i])]
  /\ UNCHANGED <<proc, argvConfig, cfg, scope, limit, invCount, localfs, remote, upl>>

ExecRefused(i) ==
  /\ Serving /\ NoMicrotask
  /\ inv[i].tool = "exec" /\ inv[i].chan = "execReq"
  /\ \E m \in ErrMsgs :
       inv' = [inv EXCEPT ![i] = Mark(inv[i], ExecCallbackErr(inv[i], m), "execErr")]
  /\ UNCHANGED <<proc, argvConfig, cfg, scope, limit, invCount, localfs, remote, upl>>

ExecOpened(i) ==
  /\ Serving /\ NoMicrotask
  /\ inv[i].tool = "exec" /\ inv[i].chan = "execReq"
  /\ inv' = [inv EXCEPT ![i] = ExecCallbackOk(inv[i])]
  /\ UNCHANGED <<proc, argvConfig, cfg, scope, limit, invCount, localfs, remote, upl>>

ExecStdout(i) ==
  /\ Serving /\ NoMicrotask
  /\ inv[i].tool = "exec" /\ inv[i].chan = "stream"
  /\ \E c \in Chunks(scope.streamBytes - Delivered(inv[i])) :
       inv' = [inv EXCEPT ![i] =
                 [ExecOnData(inv[i], c) EXCEPT !.outLog = Append(inv[i].outLog, c)]]
  /\ UNCHANGED <<proc, argvConfig, cfg, scope, limit, invCount, localfs, remote, upl>>

ExecStderr(i) ==
  /\ Serving /\ NoMicrotask
  /\ inv[i].tool = "exec" /\ inv[i].chan = "stream"
  /\ \E c \in Chunks(scope.streamBytes - Delivered(inv[i])) :
       inv' = [inv EXCEPT ![i] =
                 [ExecOnStderr(inv[i], c) EXCEPT !.errLog = Append(inv[i].errLog, c)]]
  /\ UNCHANGED <<proc, argvConfig, cfg, scope, limit, invCount, localfs, remote, upl>>

ExecClose(i) ==
  /\ Serving /\ NoMicrotask
  /\ inv[i].tool = "exec" /\ inv[i].chan = "stream"
  /\ \E code \in ExitCodes :
       inv' = [inv EXCEPT ![i] =
                 Mark(inv[i], [ExecOnClose(inv[i], code) EXCEPT !.code = code], "close")]
  /\ UNCHANGED <<proc, argvConfig, cfg, scope, limit, invCount, localfs, remote, upl>>

ExecConnError(i) ==
  /\ Serving /\ NoMicrotask
  /\ inv[i].tool = "exec" /\ inv[i].conn \in {"connecting", "ready"}
  /\ \E m \in ErrMsgs :
       inv' = [inv EXCEPT ![i] =
                 Mark(inv[i], [ExecOnConnError(inv[i], m) EXCEPT
                                 !.conn = "errored", !.errMsg = m],
                      "connError")]
  /\ UNCHANGED <<proc, argvConfig, cfg, scope, limit, invCount, localfs, remote, upl>>

ExecReturn(i) ==
  /\ Serving
  /\ inv[i].tool = "exec" /\ inv[i].pc = "await" /\ inv[i].promise.st # "pending"
  /\ inv' = [inv EXCEPT ![i] = ExecResume(inv[i])]
  /\ UNCHANGED <<proc, argvConfig, cfg, scope, limit, invCount, localfs, remote, upl>>

---------------------------------------------------------------------------
(* sftp_upload, sftp_download, sftp_list: the handlers and execSftpCommand *)

\* `${item.filename} (${item.longname})`
FormatEntry(e) == <<e.filename, " (", e.longname, ")">>

\* list.map(item => ...).join('\n')
RECURSIVE ListText(_)
ListText(list) ==
  IF list = <<>> THEN <<>>
  ELSE IF Len(list) = 1 THEN FormatEntry(list[1])
  ELSE FormatEntry(list[1]) \o <<"\n">> \o ListText(Tail(list))

\* Variant: the connection is opened without looking at what the read gave.
UploadHandler_ConnectAnyway(s, read, c, keyOk) ==
  IF ~SshAuth(c, keyOk).ok
  THEN KeyUnreadable(s, "Upload failed")
  ELSE Connect([s EXCEPT !.fileData = IF read = NoFile THEN <<>> ELSE read],
               SshAuth(c, keyOk))

\* sftp_upload up to its await: fs.readFile(localPath), sshConfig, execSftpCommand.
\* read: what fs.readFile(localPath) yields, NoFile when it fails.
UploadHandler(s, read, c, keyOk) ==
  IF read = NoFile
  THEN Throw(s, McpError("Upload failed", <<"ENOENT">>))
  ELSE IF ~SshAuth(c, keyOk).ok
       THEN KeyUnreadable(s, "Upload failed")
       ELSE Connect([s EXCEPT !.fileData = read], SshAuth(c, keyOk))

\* sftp_download up to its await: sshConfig, execSftpCommand.
DownloadHandler(s, c, keyOk) ==
  IF ~SshAuth(c, keyOk).ok
  THEN KeyUnreadable(s, "Download failed")
  ELSE Connect(s, SshAuth(c, keyOk))

\* sftp_list up to its await: sshConfig, execSftpCommand.
ListHandler(s, c, keyOk) ==
  IF ~SshAuth(c, keyOk).ok
  THEN KeyUnreadable(s, "List failed")
  ELSE Connect(s, SshAuth(c, keyOk))

\* conn.on('ready'): conn.sftp(cb)
SftpOnReady(s) ==
  [s EXCEPT !.conn = "ready", !.ready = TRUE, !.chan = "sftpReq", !.issued = @ + 1]

\* Variant: success is resolved as soon as the stream has been ended.
UploadCase_ResolveEarly(s) ==
  [s EXCEPT !.spath = s.rp, !.wbuf = s.fileData, !.chan = "wsOpening", !.issued = @ + 1,
            !.promise = Resolve(@, TextContent(<<"File uploaded to ", s.rp>>))]

\* case 'upload': createWriteStream(remotePath), write(data), end(), on('close')
UploadCase(s) ==
  [s EXCEPT !.spath = s.rp, !.wbuf = s.fileData, !.chan = "wsOpening", !.issued = @ + 1]

\* case 'download': createReadStream(remotePath), let data = Buffer.from('')
DownloadCase(s) ==
  [s EXCEPT !.spath = s.rp, !.data = <<>>, !.chan = "rsOpening", !.issued = @ + 1]

\* case 'list': sftp.readdir(remotePath, cb)
ListCase(s) ==
  [s EXCEPT !.spath = s.rp, !.chan = "readdirReq", !.issued = @ + 1]

\* cb(undefined, sftp): switch (action)
SftpCallbackOk(s) ==
  CASE s.tool = "sftp_upload" -> UploadCase(s)
    [] s.tool = "sftp_download" -> DownloadCase(s)
    [] s.tool = "sftp_list" -> ListCase(s)

\* Variant: no return after conn.end(), so that the switch runs as well.
SftpCallbackErr_FallThrough(s, m) ==
  [SftpCallbackOk(s) EXCEPT !.promise = Reject(@, McpError("SFTP error", <<m>>)),
                            !.ends = @ + 1]

\* cb(err) of conn.sftp: reject, conn.end(), return
SftpCallbackErr(s, m) ==
  [s EXCEPT !.promise = Reject(@, McpError("SFTP error", <<m>>)),
            !.ends = @ + 1, !.chan = "failed"]

\* writeStream.on('close'): resolve(...), conn.end()
UploadOnClose(s) ==
  [s EXCEPT !.promise = Resolve(@, TextContent(<<"File uploaded to ", s.rp>>)),
            !.ends = @ + 1, !.chan = "closed"]

\* Variant: the promise is resolved with what has arrived at the first chunk.
DownloadOnData_ResolveEarly(s, chunk) ==
  [s EXCEPT !.data = @ \o chunk, !.promise = Resolve(@, BufferVal(s.data \o chunk))]

\* Variant: Buffer.concat([chunk, data]).
DownloadOnData_Prepend(s, chunk) == [s EXCEPT !.data = chunk \o @]

\* readStream.on('data'): data = Buffer.concat([data, chunk])
DownloadOnData(s, chunk) == [s EXCEPT !.data = @ \o chunk]

\* readStream.on('end'): resolve(data), conn.end()
DownloadOnEnd(s) ==
  [s EXCEPT !.promise = Resolve(@, BufferVal(s.data)),
            !.ends = @ + 1, !.chan = "closed"]

\* readdir cb(err): reject, conn.end(), return
ListCallbackErr(s, m) ==
  [s EXCEPT !.promise = Reject(@, McpError("List error", <<m>>)),
            !.ends = @ + 1, !.chan = "failed"]

\* readdir cb(undefined, list): resolve({content: [{type, text}]}), conn.end()
ListCallbackOk(s, list) ==
  [s EXCEPT !.promise = Resolve(@, TextContent(ListText(list))),
            !.ends = @ + 1, !.chan = "closed"]

\* conn.on('error') of execSftpCommand: reject only
SftpOnConnError(s, m) ==
  [s EXCEPT !.promise = Reject(@, McpError("SFTP connection error", <<m>>))]

\* sftp_upload after its await: the confirmation text, or the McpError rethrown.
UploadResume(s) ==
  [s EXCEPT !.pc = "done",
            !.outcome = IF s.promise.st = "resolved"
                        THEN Resolve(@, TextContent(<<"File uploaded to ", s.rp>>))
                        ELSE Reject(@, s.promise.val)]

\* sftp_download after its await: does it reach fs.writeFile(localPath, result)?
DownloadWrites(s) == s.promise.st = "resolved" /\ s.promise.val.tag = "buffer"

\* Variant: the text of the buffer, re-encoded, is written.
DownloadFile_AsText(s) ==
  [k \in 1..Len(s.promise.val.bytes) |->
     IF Decode(<<s.promise.val.bytes[k]>>) = <<"a">> THEN "A" ELSE "T"]

\* The bytes fs.writeFile(localPath, result) is given.
DownloadFile(s) == s.promise.val.bytes

\* sftp_download after its await.  writeOk: whether fs.writeFile succeeds.
DownloadResume(s, writeOk) ==
  [s EXCEPT !.pc = "done",
            !.outcome =
               IF s.promise.st = "rejected" THEN Reject(@, s.promise.val)
               ELSE IF ~DownloadWrites(s)
                    THEN Reject(@, McpError("Download failed", <<"not a Buffer">>))
               ELSE IF ~writeOk THEN Reject(@, McpError("Download failed", <<"EIO">>))
               ELSE Resolve(@, TextContent(<<"File downloaded to ", s.lp>>))]

\* sftp_list after its await: list.map(...) on the resolved value, which
\* throws a TypeError unless that value is an array.
ListResume(s) ==
  [s EXCEPT !.pc = "done",
            !.outcome =
               IF s.promise.st = "rejected" THEN Reject(@, s.promise.val)
               ELSE IF s.promise.val.tag # "array"
                    THEN Reject(@, McpError("List failed", <<"list.map is not a function">>))
               ELSE Resolve(@, TextContent(ListText(s.promise.val.items)))]

IsSftp(i) == inv[i].tool \in {"sftp_upload", "sftp_download", "sftp_list"}

UploadInvoke(i) ==
  /\ CanInvoke(i)
  /\ \E lp \in LocalPath, rp \in RemotePath, keyOk \in BOOLEAN :
       \E read \in ReadResults(localfs[lp]) :
         inv' = [inv EXCEPT ![i] =
                   UploadHandler([IdleSlot EXCEPT !.tool = "sftp_upload", !.lp = lp,
                                                  !.rp = rp, !.src = read],
                                 read, cfg, keyOk)]
  /\ invCount' = invCount + 1
  /\ UNCHANGED <<proc, argvConfig, cfg, scope, limit, localfs, remote, upl>>

DownloadInvoke(i) ==
  /\ CanInvoke(i)
  /\ \E lp \in LocalPath, rp \in RemotePath, keyOk \in BOOLEAN :
       inv' = [inv EXCEPT ![i] =
                 DownloadHandler([IdleSlot EXCEPT !.tool = "sftp_download", !.lp = lp,
                                                  !.rp = rp],
                                 cfg, keyOk)]
  /\ invCount' = invCount + 1
  /\ UNCHANGED <<proc, argvConfig, cfg, scope, limit, localfs, remote, upl>>

ListInvoke(i) ==
  /\ CanInvoke(i)
  /\ \E rp \in RemotePath, keyOk \in BOOLEAN :
       inv' = [inv EXCEPT ![i] =
                 ListHandler([IdleSlot EXCEPT !.tool = "sftp_list", !.rp = rp], cfg, keyOk)]
  /\ invCount' = invCount + 1
  /\ UNCHANGED <<proc, argvConfig, cfg, scope, limit, localfs, remote, upl>>

SftpReady(i) ==
  /\ Serving /\ NoMicrotask
  /\ IsSftp(i) /\ inv[i].conn = "connecting"
  /\ inv' = [inv EXCEPT ![i] = SftpOnReady(inv[i])]
  /\ UNCHANGED <<proc, argvConfig, cfg, scope, limit, invCount, localfs, remote, upl>>

SftpRefused(i) ==
  /\ Serving /\ NoMicrotask
  /\ IsSftp(i) /\ inv[i].chan = "sftpReq"
  /\ \E m \in ErrMsgs :
       inv' = [inv EXCEPT ![i] = Mark(inv[i], SftpCallbackErr(inv[i], m), "sftpErr")]
  /\ UNCHANGED <<proc, argvConfig, cfg, scope, limit, invCount, localfs, remote, upl>>

SftpOpened(i) ==
  /\ Serving /\ NoMicrotask
  /\ IsSftp(i) /\ inv[i].chan = "sftpReq"
  /\ inv' = [inv EXCEPT ![i] = SftpCallbackOk(inv[i])]
  /\ UNCHANGED <<proc, argvConfig, cfg, scope, limit, invCount, localfs, remote, upl>>

\* Remote side: the file of the write stream is opened (created or truncated).
WsOpen(i) ==
  /\ Serving /\ NoMicrotask
  /\ inv[i].chan = "wsOpening"
  /\ remote' = [remote EXCEPT ![inv[i].spath] = <<>>]
  /\ upl' = [upl EXCEPT ![inv[i].spath] = NoFile]
  /\ inv' = [inv EXCEPT ![i].chan = "wsWriting"]
  /\ UNCHANGED <<proc, argvConfig, cfg, scope, limit, invCount, localfs>>

\* Remote side: the buffer written to the stream reaches the file.
WsWrite(i) ==
  /\ Serving /\ NoMicrotask
  /\ inv[i].chan = "wsWriting"
  /\ remote' = [remote EXCEPT ![inv[i].spath] = inv[i].wbuf]
  /\ inv' = [inv EXCEPT ![i].chan = "wsFlushed",
                        ![i].wrote = <<inv[i].spath, inv[i].wbuf>>]
  /\ UNCHANGED <<proc, argvConfig, cfg, scope, limit, invCount, localfs, upl>>

\* The write stream emits 'close' once everything written has been flushed.
WsClose(i) ==
  /\ Serving /\ NoMicrotask
  /\ inv[i].chan = "wsFlushed"
  /\ inv' = [inv EXCEPT ![i] = Mark(inv[i], UploadOnClose(inv[i]), "close")]
  /\ UNCHANGED <<proc, argvConfig, cfg, scope, limit, invCount, localfs, remote, upl>>

\* A stream emits 'error' (open or transfer failure).  No listener is
\* registered for it, so the EventEmitter throws and the uncaught exception
\* ends the process.
StreamError(i) ==
  /\ Serving /\ NoMicrotask
  /\ inv[i].chan \in {"wsOpening", "wsWriting", "rsOpening", "rsReading"}
  /\ inv' = [inv EXCEPT ![i].chan = "streamError"]
  /\ proc' = "crashed"
  /\ UNCHANGED <<argvConfig, cfg, scope, limit, invCount, localfs, remote, upl>>

\* Remote side: the file of the read stream is opened.
RsOpen(i) ==
  /\ Serving /\ NoMicrotask
  /\ inv[i].chan = "rsOpening"
  /\ remote[inv[i].spath] # NoFile
  /\ inv' = [inv EXCEPT ![i].chan = "rsReading", ![i].rpos = 0,
                        ![i].src = upl[inv[i].rp]]
  /\ UNCHANGED <<proc, argvConfig, cfg, scope, limit, invCount, localfs, remote, upl>>

\* The read stream emits 'data' with the next bytes of the file.
RsData(i) ==
  /\ Serving /\ NoMicrotask
  /\ inv[i].chan = "rsReading"
  /\ remote[inv[i].spath] # NoFile
  /\ \E k \in 1..(Len(remote[inv[i].spath]) - inv[i].rpos) :
       LET chunk == SubSeq(remote[inv[i].spath], inv[i].rpos + 1, inv[i].rpos + k)
       IN inv' = [inv EXCEPT ![i] =
                    [DownloadOnData(inv[i], chunk) EXCEPT
                       !.rpos = @ + k, !.dlLog = Append(@, chunk)]]
  /\ UNCHANGED <<proc, argvConfig, cfg, scope, limit, invCount, localfs, remote, upl>>

\* The read stream emits 'end' when the file has been read to its end.
RsEnd(i) ==
  /\ Serving /\ NoMicrotask
  /\ inv[i].chan = "rsReading"
  /\ remote[inv[i].spath] # NoFile
  /\ inv[i].rpos >= Len(remote[inv[i].spath])
  /\ inv' = [inv EXCEPT ![i] = Mark(inv[i], DownloadOnEnd(inv[i]), "end")]
  /\ UNCHANGED <<proc, argvConfig, cfg, scope, limit, invCount, localfs, remote, upl>>

ReaddirFailed(i) ==
  /\ Serving /\ NoMicrotask
  /\ inv[i].chan = "readdirReq"
  /\ \E m \in ErrMsgs :
       inv' = [inv EXCEPT ![i] = Mark(inv[i], ListCallbackErr(inv[i], m), "readdirErr")]
  /\ UNCHANGED <<proc, argvConfig, cfg, scope, limit, invCount, localfs, remote, upl>>

ReaddirOk(i) ==
  /\ Serving /\ NoMicrotask
  /\ inv[i].chan = "readdirReq"
  /\ \E list \in Listings :
       inv' = [inv EXCEPT ![i] =
                 Mark(inv[i], [ListCallbackOk(inv[i], list) EXCEPT !.listed = list],
                      "readdir")]
  /\ UNCHANGED <<proc, argvConfig, cfg, scope, limit, invCount, localfs, remote, upl>>

SftpConnError(i) ==
  /\ Serving /\ NoMicrotask
  /\ IsSftp(i) /\ inv[i].conn \in {"connecting", "ready"}
  /\ \E m \in ErrMsgs :
       inv' = [inv EXCEPT ![i] =
                 Mark(inv[i], [SftpOnConnError(inv[i], m) EXCEPT
                                 !.conn = "errored", !.errMsg = m],
                      "connError")]
  /\ UNCHANGED <<proc, argvConfig, cfg, scope, limit, invCount, localfs, remote, upl>>

UploadReturn(i) ==
  /\ Serving
  /\ inv[i].tool = "sftp_upload" /\ inv[i].pc = "await" /\ inv[i].promise.st # "pending"
  /\ inv' = [inv EXCEPT ![i] = UploadResume(inv[i])]
  /\ upl' = IF inv[i].promise.st = "resolved"
            THEN [upl EXCEPT ![inv[i].rp] = inv[i].src] ELSE upl
  /\ UNCHANGED <<proc, argvConfig, cfg, scope, limit, invCount, localfs, remote>>

DownloadReturn(i) ==
  /\ Serving
  /\ inv[i].tool = "sftp_download" /\ inv[i].pc = "await" /\ inv[i].promise.st # "pending"
  /\ \E writeOk \in BOOLEAN :
       /\ inv' = [inv EXCEPT ![i] = DownloadResume(inv[i], writeOk)]
       /\ localfs' = IF DownloadWrites(inv[i]) /\ writeOk
                     THEN [localfs EXCEPT ![inv[i].lp] = DownloadFile(inv[i])]
                     ELSE localfs
  /\ UNCHANGED <<proc, argvConfig, cfg, scope, limit, invCount, remote, upl>>

ListReturn(i) ==
  /\ Serving
  /\ inv[i].tool = "sftp_list" /\ inv[i].pc = "await" /\ inv[i].promise.st # "pending"
  /\ inv' = [inv EXCEPT ![i] = ListResume(inv[i])]
  /\ UNCHANGED <<proc, argvConfig, cfg, scope, limit, invCount, localfs, remote, upl>>

---------------------------------------------------------------------------

\* The module body, lines 21 to 40: the constants, then validateConfig, whose
\* throw is an uncaught exception that ends the process before it serves.
Startup ==
  /\ proc = "starting"
  /\ cfg' = ModuleConstants(argvConfig)
  /\ proc' = IF validateConfig(argvConfig) = <<>> THEN "serving" ELSE "exited"
  /\ UNCHANGED <<argvConfig, scope, limit, invCount, localfs, remote, upl, inv>>

---------------------------------------------------------------------------

\* Command lines with host and user, no port: password and key, key only,
\* neither.
Configs ==
  { [host |-> <<"h">>, user |-> <<"u">>, port |-> Absent,
     password |-> pk[1], key |-> pk[2]] :
      pk \in {<<<<"p">>, <<"k">>>>, <<Absent, <<"k">>>>, <<Absent, Absent>>} }

\* Command lines with or without host and user and with any --port value.
PortConfigs ==
  [ host : {Absent, <<>>, <<"h">>}, user : {Absent, <<>>, <<"u">>},
    port : PortStrings \cup {Absent}, password : {Absent}, key : {Absent} ]

\* What the remote side holds when the process starts.
NoRemoteFiles == [p \in RemotePath |-> NoFile]
OneRemoteFile == [p \in RemotePath |-> IF p = "r1" THEN <<"A">> ELSE NoFile]

InitWith(configs, sc, lim, files) ==
  /\ proc = "starting"
  /\ argvConfig \in configs
  /\ cfg = NoConfig
  /\ scope = sc
  /\ limit = lim
  /\ invCount = 0
  /\ localfs = [p \in LocalPath |-> Untouched]
  /\ remote = files
  /\ upl = [p \in RemotePath |-> NoFile]
  /\ inv = [i \in Slots |-> IdleSlot]

\* One invocation at a time, the wide scope.
Init == InitWith(Configs, WideScope, 1, NoRemoteFiles)

\* Any command line, then one invocation in the narrow scope.
StartupInit ==
  InitWith(PortConfigs, [NarrowScope EXCEPT !.invocations = 1], 1, OneRemoteFile)

\* Two invocations in flight at once, the narrow scope.
ConcInit ==
  InitWith({c \in Configs : c.key = Absent}, NarrowScope, Cardinality(Slots), NoRemoteFiles)

\* One invocation at a time, the narrow scope.
LiveInit == InitWith(Configs, NarrowScope, 1, NoRemoteFiles)

Invocation ==
  \E i \in Slots :
    \/ ExecInvoke(i)
    \/ ExecReady(i)
    \/ ExecRefused(i)
    \/ ExecOpened(i)
    \/ ExecStdout(i)
    \/ ExecStderr(i)
    \/ ExecClose(i)
    \/ ExecConnError(i)
    \/ ExecReturn(i)
    \/ UploadInvoke(i)
    \/ DownloadInvoke(i)
    \/ ListInvoke(i)
    \/ SftpReady(i)
    \/ SftpRefused(i)
    \/ SftpOpened(i)
    \/ WsOpen(i)
    \/ WsWrite(i)
    \/ WsClose(i)
    \/ StreamError(i)
    \/ RsOpen(i)
    \/ RsData(i)
    \/ RsEnd(i)
    \/ ReaddirFailed(i)
    \/ ReaddirOk(i)
    \/ SftpConnError(i)
    \/ UploadReturn(i)
    \/ DownloadReturn(i)
    \/ ListReturn(i)

Next == Startup \/ Invocation

Spec == Init /\ [][Next]_vars

StartupSpec == StartupInit /\ [][Next]_vars

ConcSpec == ConcInit /\ [][Next]_vars

\* The event loop runs whatever is ready: a callback of an event that has
\* arrived, the continuation of a settled promise.
LiveSpec == LiveInit /\ [][Next]_vars /\ WF_vars(Next)

---------------------------------------------------------------------------
(* Properties                                                              *)

Done(i) == inv[i].pc = "done"
Rejected(e) == [st |-> "rejected", val |-> e]
Resolved(v) == [st |-> "resolved", val |-> v]

\* The text of a sequence of chunks: each chunk's own text, in order.
RECURSIVE TextOf(_)
TextOf(log) == IF log = <<>> THEN <<>> ELSE Decode(Head(log)) \o TextOf(Tail(log))

Blank(c) == \A k \in 1..Len(c) : c[k] = "SP"

ChannelClosed(i) == inv[i].tool = "exec" /\ inv[i].chan = "closed"

ConnErrorKind(i) ==
  IF inv[i].tool = "exec" THEN "SSH connection error" ELSE "SFTP connection error"

\* C1: every invocation that created a connection calls conn.end() on it
\* exactly once, and has done so by the time its result or failure reaches
\* the caller, on every exit path.
C1_SessionClosedExactlyOnce ==
  \A i \in Slots :
    /\ inv[i].ends <= 1
    /\ (Done(i) /\ inv[i].connects > 0) => inv[i].ends = 1

C4_BlankCommandRejected ==
  \A i \in Slots :
    (inv[i].tool = "exec" /\ Blank(inv[i].cmd))
      => /\ inv[i].outcome = Rejected(McpError("Command must be a non-empty string.", <<>>))
         /\ Done(i)
         /\ inv[i].conn = "none" /\ inv[i].connects = 0 /\ inv[i].issued = 0

C4_Witness ==
  \E i \in Slots :
    /\ inv[i].tool = "exec" /\ inv[i].cmd # <<>> /\ Blank(inv[i].cmd)
    /\ Done(i) /\ inv[i].outcome.st = "rejected"

\* C5: when the connection emits an error before it reports ready, the
\* invocation ends with the connection failure carrying that message, no
\* request was issued on the connection, connect was called once only, and
\* the session has been closed.
C5_ConnectFailureClosesSession ==
  \A i \in Slots :
    (inv[i].by = "connError" /\ inv[i].chan = "none" /\ Done(i))
      => /\ inv[i].outcome = Rejected(McpError(ConnErrorKind(i), <<inv[i].errMsg>>))
         /\ inv[i].issued = 0
         /\ inv[i].connects = 1
         /\ inv[i].ends = 1

\* The part of C5 that does not depend on conn.end(): the failure carries
\* the message, nothing was issued on the connection, connect ran once.
C5_ConnectFailureReported ==
  \A i \in Slots :
    (inv[i].by = "connError" /\ inv[i].chan = "none" /\ Done(i))
      => /\ inv[i].outcome = Rejected(McpError(ConnErrorKind(i), <<inv[i].errMsg>>))
         /\ inv[i].issued = 0
         /\ inv[i].connects = 1

\* C6: when the write stream of an upload or the read stream of a download
\* emits an error, the invocation is rejected with a transfer failure and
\* the error is handled.
C6_StreamErrorReported ==
  \A i \in Slots :
    inv[i].chan = "streamError" => (Serving /\ inv[i].promise.st = "rejected")

\* C7: when the directory listing succeeds, sftp_list returns a success
\* payload with one item per entry, name and long-form description, in the
\* remote order.
C7_ListSucceeds ==
  \A i \in Slots :
    (inv[i].tool = "sftp_list" /\ inv[i].by = "readdir" /\ Done(i))
      => inv[i].outcome = Resolved(TextContent(ListText(inv[i].listed)))

\* C8: a download that succeeds on a remote path whose last writer was a
\* successful upload leaves in its local file exactly the bytes that upload
\* read, however the remote side split them into chunks.
C8_RoundTrip ==
  \A i \in Slots :
    (inv[i].tool = "sftp_download" /\ Done(i) /\ inv[i].outcome.st = "resolved"
       /\ inv[i].src # NoFile)
      => localfs[inv[i].lp] = inv[i].src

C8_Witness ==
  \E i \in Slots :
    /\ inv[i].tool = "sftp_download" /\ Done(i) /\ inv[i].outcome.st = "resolved"
    /\ inv[i].src = <<"A", "L">> /\ Len(inv[i].dlLog) = 2
    /\ localfs[inv[i].lp] = <<"A", "L">>

\* C9: a download resolves only at the read stream's 'end', and then with
\* the concatenation of every chunk the stream emitted, in arrival order.
C9_DownloadConcatenates ==
  \A i \in Slots :
    inv[i].tool = "sftp_download"
      => /\ inv[i].promise.st = "resolved"
              => /\ inv[i].by = "end"
                 /\ inv[i].promise.val = BufferVal(Flatten(inv[i].dlLog))
         /\ inv[i].outcome.st = "resolved" => inv[i].promise.st = "resolved"

C9_Witness ==
  \E i \in Slots :
    /\ inv[i].tool = "sftp_download" /\ inv[i].promise.st = "resolved"
    /\ Len(inv[i].dlLog) = 2 /\ inv[i].dlLog[1] # inv[i].dlLog[2]

\* C10: an upload is resolved, and reported successful, only after the
\* remote side stored the whole buffer at the remote path and the write
\* stream emitted 'close'.
C10_UploadSuccessAfterClose ==
  \A i \in Slots :
    (inv[i].tool = "sftp_upload"
       /\ (inv[i].promise.st = "resolved" \/ inv[i].outcome.st = "resolved"))
      => /\ inv[i].chan = "closed" /\ inv[i].by = "close"
         /\ inv[i].wrote = <<inv[i].rp, inv[i].src>>

C10_Witness ==
  \E i \in Slots :
    /\ inv[i].tool = "sftp_upload" /\ Done(i) /\ inv[i].outcome.st = "resolved"
    /\ Len(inv[i].src) = 2

C12_ServingPortInRange ==
  /\ Serving
       => /\ Truthy(argvConfig.host) /\ Truthy(argvConfig.user)
          /\ ~isNaN(cfg.port) /\ cfg.port.n \in 1..65535
          /\ ~Truthy(argvConfig.port) => cfg.port = Num(DefaultPort)
  /\ \A i \in Slots :
       inv[i].connects > 0 => (~isNaN(inv[i].port) /\ inv[i].port.n \in 1..65535)

\* The part of C12 that the code keeps: the process serves only with host
\* and user given and a port that Number() accepts; PORT is 22 when no port
\* was configured; every session is opened with PORT.
C12_ValidatedAsNumber ==
  /\ Serving
       => /\ Truthy(argvConfig.host) /\ Truthy(argvConfig.user)
          /\ Truthy(argvConfig.port) => ~isNaN(Number(argvConfig.port))
          /\ ~Truthy(argvConfig.port) => cfg.port = Num(DefaultPort)
  /\ \A i \in Slots : inv[i].connects > 0 => inv[i].port = cfg.port

\* C13: a request (the file-transfer channel, a write stream, a read stream,
\* a directory listing, a command) is issued on a connection only when that
\* connection has emitted 'ready' and the invocation has not called
\* conn.end() on it.
C13_IssuedOnLiveSession ==
  [][\A i \in Slots :
       inv'[i].issued > inv[i].issued
         => (inv'[i].ready /\ inv'[i].connects = 1 /\ inv'[i].ends = 0)]_vars

C13_Witness ==
  \E i \in Slots :
    /\ inv[i].tool = "sftp_download" /\ inv[i].chan = "rsReading"
    /\ inv[i].issued = 2 /\ inv[i].conn = "ready" /\ inv[i].ends = 0

\* C14: every invocation that waits for the remote side eventually returns a
\* result or a failure to the dispatcher, given that the event loop keeps
\* delivering the events that are pending.
C14_EventuallyReturns ==
  \A i \in Slots : (inv[i].pc = "await") ~> (inv[i].pc = "done")

\* The part of C14 that the code keeps: an invocation that waits eventually
\* returns unless a stream error has ended the process.
C14_ReturnsUnlessCrashed ==
  \A i \in Slots : (inv[i].pc = "await") ~> (inv[i].pc = "done" \/ proc = "crashed")

\* What the events of invocation i's own session determine: the promise of
\* execSshCommand / execSftpCommand, from the callback that settled it and
\* the chunks, entries, exit code and error message delivered to i.
OwnResult(i) ==
  CASE inv[i].by = "close" /\ inv[i].tool = "exec" ->
         IF inv[i].errLog # <<>>
         THEN Rejected(ExecFailure(inv[i].code, TextOf(inv[i].errLog)))
         ELSE Resolved(TextContent(TextOf(inv[i].outLog)))
    [] inv[i].by = "close" /\ inv[i].tool = "sftp_upload" ->
         Resolved(TextContent(<<"File uploaded to ", inv[i].rp>>))
    [] inv[i].by = "end" -> Resolved(BufferVal(Flatten(inv[i].dlLog)))
    [] inv[i].by = "readdir" -> Resolved(TextContent(ListText(inv[i].listed)))
    [] inv[i].by = "connError" -> Rejected(McpError(ConnErrorKind(i), <<inv[i].errMsg>>))
    [] OTHER -> inv[i].promise

\* The part of C15 about buffers and connections: whatever the other
\* invocation does, the promise of each is what its own events determine,
\* and each has called connect and end on its own connection only.
C15_OwnBuffers ==
  \A i \in Slots :
    /\ inv[i].promise = OwnResult(i)
    /\ inv[i].connects <= 1 /\ inv[i].ends <= 1
    /\ inv[i].ends = 1 => inv[i].by \in {"close", "end", "readdir", "readdirErr",
                                         "sftpErr", "execErr", "connError"}

\* The part of C15 about steps: a callback of one invocation leaves the
\* record of every other invocation as it was.
C15_OneInvocationPerStep ==
  [][\A i, j \in Slots : (i # j /\ inv'[i] # inv[i]) => inv'[j] = inv[j]]_vars

\* C15: of two invocations in flight, the result of each is what its own
\* session's events determine, and a failure of one session does not fail
\* the other: an invocation that still waits and whose own streams emitted
\* no error is still being served.
C15_Independent ==
  /\ C15_OwnBuffers
  /\ \A i \in Slots :
       (inv[i].pc = "await" /\ inv[i].chan # "streamError") => proc = "serving"

\* C16: within one invocation the handler goes from idle to awaiting to
\* done and never back; its promise, once settled, and its outcome, once
\* delivered, are not changed by any later event (a late connection error,
\* a late close or data event), and an outcome exists exactly when the
\* handler is done.
C16_SingleOutcome ==
  [][invCount' = invCount
       => \A i \in Slots :
            /\ inv[i].promise.st # "pending" => inv'[i].promise = inv[i].promise
            /\ Done(i) => (Done(i)' /\ inv'[i].outcome = inv[i].outcome)
            /\ inv[i].pc = "await" => inv'[i].pc \in {"await", "done"}
            /\ (inv'[i].outcome.st # "pending") <=> Done(i)']_vars

C16_Witness ==
  \E i \in Slots :
    /\ Done(i) /\ inv[i].by = "connError" /\ ChannelClosed(i) /\ inv[i].ends = 1
    /\ inv[i].outLog # <<>>
    /\ inv[i].outcome = Rejected(McpError("SSH connection error", <<inv[i].errMsg>>))

\* C17: the local file of a download changes only in the step in which the
\* handler resumes from a promise that the read stream's 'end' resolved, and
\* then it holds every chunk the stream emitted; a download that failed
\* before that leaves every local file as it was.
C17_DownloadAtomic ==
  [][\A p \in LocalPath :
       localfs'[p] # localfs[p]
         => \E i \in Slots :
              /\ inv[i].tool = "sftp_download" /\ inv[i].lp = p
              /\ inv[i].pc = "await" /\ inv[i].by = "end" /\ inv[i].chan = "closed"
              /\ localfs'[p] = Flatten(inv[i].dlLog)
              /\ Done(i)' /\ inv'[i].outcome.st = "resolved"]_vars

C17_Witness ==
  \E i \in Slots :
    /\ inv[i].tool = "sftp_download" /\ Done(i) /\ inv[i].outcome.st = "rejected"
    /\ inv[i].by = "connError" /\ inv[i].dlLog # <<>>
    /\ localfs[inv[i].lp] = Untouched

\* C18: an upload whose local file cannot be read fails with the local read
\* error; no client is created, no connect is called, nothing is issued
\* and the remote files are left as they were.
C18_UnreadableLocalFile ==
  \A i \in Slots :
    (inv[i].tool = "sftp_upload" /\ inv[i].src = NoFile)
      => /\ Done(i)
         /\ inv[i].outcome = Rejected(McpError("Upload failed", <<"ENOENT">>))
         /\ inv[i].conn = "none" /\ inv[i].connects = 0 /\ inv[i].issued = 0
         /\ ~inv[i].keyRead
         /\ inv[i].chan = "none" /\ inv[i].wrote = <<>>

C18_Witness ==
  \E i \in Slots :
    /\ inv[i].tool = "sftp_upload" /\ inv[i].src = NoFile /\ Done(i)
    /\ inv[i].outcome.st = "rejected" /\ inv[i].connects = 0
    /\ remote[inv[i].rp] # NoFile

====
